---- MODULE Spec2Model ----
(***************************************************************************)
(* Parametric crop-insurance backend: the payout decision and settlement   *)
(* service (backend/services/PayoutService.js), the policy registry        *)
(* (PolicyService), the weather service in front of it                     *)
(* (backend/services/WeatherService.js), the weather analysis              *)
(* (WeatherXMService.analyzeWeatherConditions), the ledger client          *)
(* (AlgorandService.processPayout) and the hourly cron sweep of            *)
(* backend/server.js.                                                      *)
(*                                                                         *)
(* JavaScript runs one task at a time and switches tasks only at an await  *)
(* that waits for I/O.  `running` names the evaluation whose synchronous   *)
(* code is executing; while it is set no other evaluation, no clock tick   *)
(* and no registry call can take a step.                                   *)
(*                                                                         *)
(* Time is in milliseconds, as Date.now() is.  Amounts are integers;       *)
(* the 0.1 / 0.5 / 1.3 ... factors are carried as exact fractions (for     *)
(* integer coverage up to 20000 the IEEE-754 result of the source          *)
(* expression has the same floor as the exact product).                    *)
(***************************************************************************)
EXTENDS Integers, Sequences, FiniteSets, TLC

VARIABLES
  now,            \* Date.now()
  ticks,          \* number of clock advances so far (bounds the run)
  nodeEnv,        \* process.env.NODE_ENV
  policies,       \* PolicyService.policies: sequence, policy id = index
  farmers,        \* PolicyService.farmers: farmerId -> aggregate
  payoutHistory,  \* PayoutService.payoutHistory: sequence, record id = index
  cache,          \* WeatherService.cache: deviceId -> entry
  ledger,         \* transactions accepted by sendRawTransaction
  evals,          \* the evaluations in flight: task -> frame
  running,        \* the task executing synchronous code, or NoTask
  calc,           \* the last calculatePayoutAmount call: input and result
  hook,           \* the last webhook request or signature check, and its answer
  probe,          \* the last call of the weather analysis: input and results
  retry,          \* WeatherXMService.fetchWithRetry: the call in flight
  wx,             \* WeatherXMService: dataCache, cacheTimeout, calls in flight
  gate            \* WeatherXMService.enforceRateLimit: requestCounts, callers

\* the weather client and the webhook endpoint
client == <<hook, probe, retry, wx, gate>>

\* the payout service, the registry, the weather service and the ledger
core == <<now, ticks, nodeEnv, policies, farmers, payoutHistory, cache,
          ledger, evals, running, calc>>

vars == <<now, ticks, nodeEnv, policies, farmers, payoutHistory, cache,
          ledger, evals, running, calc, hook, probe, retry, wx, gate>>

-----------------------------------------------------------------------------
(* Bounds of the model *)

MaxTicks == 2
MaxPolicies == 1
MaxCoverage == 40
MaxRecords == 2

TaskOrder == <<"t1", "t2">>
Tasks == {TaskOrder[i] : i \in DOMAIN TaskOrder}
NoTask == "none"

(* Program constants *)

DayMs == 24 * 60 * 60 * 1000
CacheTimeout == 15 * 60 * 1000
DuplicateWindow == 24 * 60 * 60 * 1000
MicroAlgos == 1000000

\* the clock is observed once a day
TickSteps == {DayMs}

CropTypes ==
  [maize  |-> [id |-> "maize",  minRainfall |-> 300, maxTemperature |-> 35,
               maxDailyRainfall |-> 50, premiumPct |-> 8],
   rice   |-> [id |-> "rice",   minRainfall |-> 400, maxTemperature |-> 38,
               maxDailyRainfall |-> 80, premiumPct |-> 10],
   wheat  |-> [id |-> "wheat",  minRainfall |-> 200, maxTemperature |-> 32,
               maxDailyRainfall |-> 40, premiumPct |-> 6],
   cotton |-> [id |-> "cotton", minRainfall |-> 250, maxTemperature |-> 40,
               maxDailyRainfall |-> 45, premiumPct |-> 12]]

Statuses == {"active", "expired", "claimed", "cancelled"}
Severities == {"severe", "moderate", "mild"}
TriggerTypes == {"drought", "excessive_heat", "flooding"}

-----------------------------------------------------------------------------
(* Helpers on sequences and numbers *)

Min(a, b) == IF a <= b THEN a ELSE b

RECURSIVE SumSeq(_)
SumSeq(s) == IF s = <<>> THEN 0 ELSE Head(s) + SumSeq(Tail(s))

RECURSIVE MaxSeq(_)
MaxSeq(s) ==
  IF Len(s) = 1 THEN s[1]
  ELSE LET m == MaxSeq(Tail(s)) IN IF s[1] >= m THEN s[1] ELSE m

RECURSIVE SelectIdx(_, _)
SelectIdx(s, keep) ==
  IF s = <<>> THEN <<>>
  ELSE IF keep[Len(s)]
       THEN Append(SelectIdx(SubSeq(s, 1, Len(s) - 1), keep), s[Len(s)])
       ELSE SelectIdx(SubSeq(s, 1, Len(s) - 1), keep)

Range(s) == {s[i] : i \in DOMAIN s}

-----------------------------------------------------------------------------
(* PayoutService.calculatePayoutAmount *)

\* a slip in the severity table: mild pays more than moderate
SeverityMult10Slip(severity) ==
  CASE severity = "severe"   -> 20
    [] severity = "moderate" -> 10
    [] OTHER                 -> 15

\* severity multiplier, times 10
SeverityMult10(severity) ==
  CASE severity = "severe"   -> 20
    [] severity = "moderate" -> 10
    [] OTHER                 -> 5

\* a slip in the type table: flooding falls through to the drought factor
TypeMult10Slip(type) ==
  CASE type = "drought"        -> 15
    [] type = "flooding"       -> 15
    [] type = "excessive_heat" -> 12
    [] OTHER                   -> 10

\* trigger-type multiplier, times 10; a type without a case keeps 1
TypeMult10(type) ==
  CASE type = "drought"        -> 15
    [] type = "flooding"       -> 13
    [] type = "excessive_heat" -> 12
    [] OTHER                   -> 10

\* Math.floor(Math.min(basePayout * multiplier, coverageAmount * 0.5)),
\* basePayout = coverageAmount * 0.1; everything scaled by 1000
calculatePayoutAmount(coverageAmount, severity, type) ==
  LET raw1000 == coverageAmount * SeverityMult10(severity) * TypeMult10(type)
      cap1000 == coverageAmount * 500
  IN  Min(raw1000, cap1000) \div 1000

-----------------------------------------------------------------------------
(* WeatherXMService.analyzeWeatherConditions and calculateDailyTotals.      *)
(* A reading is [day, temperature, precipitation]: day is the calendar day  *)
(* of its timestamp (new Date(timestamp).toDateString()).                   *)
(* A temperature or precipitation can be null (Null, a value no reading     *)
(* takes).                                                                  *)

Null == 0 - 1000

Reading(day, temperature, precipitation) ==
  [day |-> day, temperature |-> temperature, precipitation |-> precipitation]

\* the totals taken over the whole list instead of day by day
calculateDailyTotalsSlip(weatherData) ==
  <<SumSeq([i \in DOMAIN weatherData |->
              IF weatherData[i].precipitation = Null
              THEN 0 ELSE weatherData[i].precipitation])>>

\* Object.values(dailyTotals): one total per calendar day, in order of first
\* appearance; `reading[field] || 0` counts a null as 0
calculateDailyTotals(weatherData) ==
  LET firstOfDay == [i \in DOMAIN weatherData |->
                       \A j \in 1..(i - 1) : weatherData[j].day # weatherData[i].day]
      totalOfDay(d) == SumSeq([i \in DOMAIN weatherData |->
                         IF weatherData[i].day = d /\ weatherData[i].precipitation # Null
                         THEN weatherData[i].precipitation ELSE 0])
      firsts == SelectIdx(weatherData, firstOfDay)
  IN  [i \in DOMAIN firsts |-> totalOfDay(firsts[i].day)]

Trigger(type, severity) == [type |-> type, severity |-> severity]

\* a slip: one moderate trigger is enough for medium
riskLevelSlip(triggers) ==
  LET severeTriggers == {i \in DOMAIN triggers : triggers[i].severity = "severe"}
      moderateTriggers == {i \in DOMAIN triggers : triggers[i].severity = "moderate"}
  IN  IF Cardinality(severeTriggers) > 0 THEN "high"
      ELSE IF Cardinality(moderateTriggers) > 0 THEN "medium"
      ELSE "low"

\* the overall risk level of the triggers found
riskLevel(triggers) ==
  LET severeTriggers == {i \in DOMAIN triggers : triggers[i].severity = "severe"}
      moderateTriggers == {i \in DOMAIN triggers : triggers[i].severity = "moderate"}
  IN  IF Cardinality(severeTriggers) > 0 THEN "high"
      ELSE IF Cardinality(moderateTriggers) > 1 THEN "medium"
      ELSE "low"

analyzeWeatherConditions(weatherData, thresholds) ==
  LET temperatures ==
        SelectSeq([i \in DOMAIN weatherData |-> weatherData[i].temperature],
                  LAMBDA t : t # Null)
      rainfalls ==
        SelectSeq([i \in DOMAIN weatherData |-> weatherData[i].precipitation],
                  LAMBDA r : r # Null)
  IN
  IF weatherData = <<>> \/ temperatures = <<>> \/ rainfalls = <<>>
  THEN [triggers |-> <<>>, riskLevel |-> "low"]
  ELSE
    LET maxTemp == MaxSeq(temperatures)
        totalRainfall == SumSeq(rainfalls)
        maxDailyRainfall == MaxSeq(calculateDailyTotals(weatherData))
        drought ==
          IF totalRainfall < thresholds.minMonthlyRainfall
          THEN <<Trigger("drought",
                   IF 2 * totalRainfall < thresholds.minMonthlyRainfall
                   THEN "severe" ELSE "moderate")>>
          ELSE <<>>
        heat ==
          IF maxTemp > thresholds.maxTemperature
          THEN <<Trigger("excessive_heat",
                   IF maxTemp > thresholds.maxTemperature + 5
                   THEN "severe" ELSE "moderate")>>
          ELSE <<>>
        flooding ==
          IF maxDailyRainfall > thresholds.maxDailyRainfall
          THEN <<Trigger("flooding",
                   IF 2 * maxDailyRainfall > 3 * thresholds.maxDailyRainfall
                   THEN "severe" ELSE "moderate")>>
          ELSE <<>>
        triggers == drought \o heat \o flooding
    IN  [triggers |-> triggers, riskLevel |-> riskLevel(triggers)]

\* the thresholds checkPayoutConditions passes for a policy
PolicyThresholds(policy) ==
  [minMonthlyRainfall |-> CropTypes[policy.cropType].minRainfall,
   maxTemperature     |-> CropTypes[policy.cropType].maxTemperature,
   maxDailyRainfall   |-> CropTypes[policy.cropType].maxDailyRainfall]

\* Histories the weather provider can return for a device: none at all, a
\* calm week (no trigger for wheat), a dry warm day (drought and heat for
\* wheat).
CalmWeek == [i \in 1..7 |-> Reading(i, 30, 40)]
DryWarmDay == <<Reading(1, 34, 9)>>
WeatherSamples == {<<>>, CalmWeek, DryWarmDay}

\* generateMockWeatherData: never empty, temperature in [20, 35), less than
\* 10 mm a reading
MockSamples == {DryWarmDay}

\* createWeatherDataHash: the digest is carried as its preimage, the ordered
\* (timestamp, temperature, rainfall) tuples
createWeatherDataHash(weatherData) ==
  [i \in DOMAIN weatherData |->
     <<weatherData[i].day, weatherData[i].temperature, weatherData[i].precipitation>>]

-----------------------------------------------------------------------------
(* PolicyService: the policy registry *)

\* the farmer aggregate createPolicy initialises on a farmer's first policy
NewFarmer(farmerId) ==
  [id |-> farmerId, policies |-> <<>>, totalCoverage |-> 0, totalClaims |-> 0]

\* createPolicy with a known crop type.  generatePolicyId is taken to return
\* a fresh id: the position of the policy in the registry.
CreatePolicyOk(farmerId, cropType, coverageAmount, deviceId, duration) ==
  LET policyId == Len(policies) + 1
      policy == [id |-> policyId,
                 farmerId |-> farmerId,
                 cropType |-> cropType,
                 coverageAmount |-> coverageAmount,
                 premiumPaid |-> (coverageAmount * CropTypes[cropType].premiumPct) \div 100,
                 startDate |-> now,
                 endDate |-> now + duration * DayMs,
                 deviceId |-> deviceId,
                 status |-> "active",
                 claimHistory |-> <<>>]
      farmer == IF farmerId \in DOMAIN farmers
                THEN farmers[farmerId] ELSE NewFarmer(farmerId)
  IN  /\ policies' = Append(policies, policy)
      /\ farmers' = [f \in DOMAIN farmers \cup {farmerId} |->
                       IF f = farmerId
                       THEN [farmer EXCEPT !.policies = Append(@, policyId),
                                           !.totalCoverage = @ + coverageAmount]
                       ELSE farmers[f]]

\* createPolicy: an unknown crop type throws before anything is stored
CreatePolicy(farmerId, cropType, coverageAmount, deviceId, duration) ==
  /\ running = NoTask
  /\ IF cropType \in DOMAIN CropTypes
     THEN CreatePolicyOk(farmerId, cropType, coverageAmount, deviceId, duration)
     ELSE UNCHANGED <<policies, farmers>>
  /\ UNCHANGED <<now, ticks, nodeEnv, payoutHistory, cache, ledger, evals,
                 running, calc, client>>

\* getActivePolicies: the ids of the policies with status active that end
\* after now, in registry order
getActivePolicies ==
  SelectIdx([i \in DOMAIN policies |-> i],
            [i \in DOMAIN policies |->
               policies[i].status = "active" /\ policies[i].endDate > now])

\* updatePolicyStatus on a stored policy (an unknown id throws and changes
\* nothing)
UpdatePolicyStatus(policyId, status) ==
  /\ running = NoTask
  /\ policyId \in DOMAIN policies
  /\ policies' = [policies EXCEPT ![policyId].status = status]
  /\ UNCHANGED <<now, ticks, nodeEnv, farmers, payoutHistory, cache, ledger,
                 evals, running, calc, client>>

\* isPolicyEligible without the comparison against endDate
isPolicyEligibleSlip(policy) ==
  /\ policy.status = "active"
  /\ now >= policy.startDate

\* PayoutService.isPolicyEligible
isPolicyEligible(policy) ==
  /\ policy.status = "active"
  /\ now >= policy.startDate
  /\ now <= policy.endDate

-----------------------------------------------------------------------------
(* The clock *)

Tick(d) ==
  /\ running = NoTask
  /\ ticks < MaxTicks
  /\ now' = now + d
  /\ ticks' = ticks + 1
  /\ UNCHANGED <<nodeEnv, policies, farmers, payoutHistory, cache, ledger,
                 evals, running, calc, client>>

-----------------------------------------------------------------------------
(* WeatherService.getWeatherHistory: the 15-minute cache in front of the    *)
(* provider.  The key is weather_<deviceId>_<days>; days is always 7 here.  *)

NoEntry == [present |-> FALSE, data |-> <<>>, timestamp |-> 0]

CacheHit(deviceId) ==
  /\ cache[deviceId].present
  /\ now - cache[deviceId].timestamp < CacheTimeout

-----------------------------------------------------------------------------
(* PayoutService: payout records and duplicate suppression *)

\* isDuplicatePayout without the test of the record's status
isDuplicatePayoutAnyStatus(policyId, triggerType) ==
  \E i \in DOMAIN payoutHistory :
    /\ payoutHistory[i].policyId = policyId
    /\ payoutHistory[i].triggerType = triggerType
    /\ now - payoutHistory[i].timestamp < DuplicateWindow

\* isDuplicatePayout with the comparison against the window reversed
isDuplicatePayoutSlip(policyId, triggerType) ==
  \E i \in DOMAIN payoutHistory :
    /\ payoutHistory[i].policyId = policyId
    /\ payoutHistory[i].triggerType = triggerType
    /\ payoutHistory[i].status = "completed"
    /\ now - payoutHistory[i].timestamp > DuplicateWindow

\* isDuplicatePayout: a completed record of the same policy and trigger type
\* younger than 24 hours
isDuplicatePayout(policyId, triggerType) ==
  \E i \in DOMAIN payoutHistory :
    /\ payoutHistory[i].policyId = policyId
    /\ payoutHistory[i].triggerType = triggerType
    /\ payoutHistory[i].status = "completed"
    /\ now - payoutHistory[i].timestamp < DuplicateWindow

\* a slip: the completed record takes the id of the record before it
CompletedRecordSlip(policy, trigger, payoutAmount, weatherDataHash, transactionId) ==
  [id |-> Len(payoutHistory),
   policyId |-> policy.id,
   triggerType |-> trigger.type,
   payoutAmount |-> payoutAmount,
   weatherDataHash |-> weatherDataHash,
   transactionId |-> transactionId,
   timestamp |-> now,
   status |-> "completed",
   error |-> ""]

\* the record processPayout stores after the ledger call returned.
\* generatePayoutId is taken to return a fresh id: the position of the
\* record in the history.
CompletedRecord(policy, trigger, payoutAmount, weatherDataHash, transactionId) ==
  [id |-> Len(payoutHistory) + 1,
   policyId |-> policy.id,
   triggerType |-> trigger.type,
   payoutAmount |-> payoutAmount,
   weatherDataHash |-> weatherDataHash,
   transactionId |-> transactionId,
   timestamp |-> now,
   status |-> "completed",
   error |-> ""]

\* the catch block storing the amount it was about to pay
FailedRecordSlip(policy, trigger, message) ==
  [id |-> Len(payoutHistory) + 1,
   policyId |-> policy.id,
   triggerType |-> trigger.type,
   payoutAmount |-> calculatePayoutAmount(policy.coverageAmount, trigger.severity,
                                          trigger.type),
   weatherDataHash |-> <<>>,
   transactionId |-> 0,
   timestamp |-> now,
   status |-> "failed",
   error |-> message]

\* the record processPayout stores in its catch block
FailedRecord(policy, trigger, message) ==
  [id |-> Len(payoutHistory) + 1,
   policyId |-> policy.id,
   triggerType |-> trigger.type,
   payoutAmount |-> 0,
   weatherDataHash |-> <<>>,
   transactionId |-> 0,
   timestamp |-> now,
   status |-> "failed",
   error |-> message]

-----------------------------------------------------------------------------
(* Evaluations: a cron sweep, or one call of checkPayoutConditions.         *)
(* A frame holds the locals of the handler and where it stands:             *)
(*   idle           no handler is running (the results of the last stay)    *)
(*   sweep_next     cron handler, head of `for (const policy of ...)`       *)
(*   check          checkPayoutConditions entered                           *)
(*   fetch          awaiting weatherXM.getHistoricalWeather                 *)
(*   analyze        weather data at hand                                    *)
(*   trigger_loop   head of `for (const trigger of analysis.triggers)`      *)
(*   settle_submit  awaiting the ledger, transaction not yet sent           *)
(*   settle_wait    transaction sent, awaiting waitForTransaction           *)
(*   done           the handler returns or throws to its caller             *)

NoPolicy ==
  [id |-> 0, farmerId |-> "", cropType |-> "", coverageAmount |-> 0,
   premiumPaid |-> 0, startDate |-> 0, endDate |-> 0, deviceId |-> "",
   status |-> "", claimHistory |-> <<>>]

NoTrigger == Trigger("none", "none")

IdleFrame ==
  [kind |-> "none", pc |-> "idle",
   enumerated |-> <<>>,   \* sweep: the policies getActivePolicies returned
   queue |-> <<>>,        \* sweep: those not yet reached by the loop
   evaluated |-> {},      \* sweep: those handed to checkPayoutConditions
   sweepResult |-> "none",
   cur |-> NoPolicy,      \* checkPayoutConditions: its policy argument
   asked |-> FALSE,       \* getWeatherHistory was called
   fetchFailed |-> FALSE, \* the provider call failed
   data |-> <<>>,         \* weatherData
   detected |-> <<>>,     \* analysis.triggers
   triggers |-> <<>>,     \* the triggers the loop has not reached
   attempted |-> <<>>,    \* the triggers handed to processPayout
   trig |-> NoTrigger,    \* processPayout: its trigger argument
   amount |-> 0,          \* processPayout: payoutAmount
   txId |-> 0,            \* AlgorandService.processPayout: txId
   round |-> 0,           \* waitForTransaction: lastRound, modulo 2
   ledgerResult |-> "none", \* how the last AlgorandService.processPayout ended
   ppResult |-> "none",   \* how the last processPayout ended
   cpcResult |-> "none",  \* how the last checkPayoutConditions ended
   cpcCause |-> "none"]

LedgerPcs == {"settle_submit", "settle_wait"}

\* the frame with the locals of a new checkPayoutConditions call
EnterCheck(f, policy) ==
  [f EXCEPT !.pc = "check", !.cur = policy, !.asked = FALSE,
            !.fetchFailed = FALSE, !.data = <<>>, !.detected = <<>>,
            !.triggers = <<>>, !.attempted = <<>>, !.trig = NoTrigger,
            !.amount = 0, !.txId = 0, !.ledgerResult = "none",
            !.ppResult = "none",
            !.cpcResult = "none", !.cpcCause = "none"]

\* checkPayoutConditions returns to its caller: the cron loop goes on, a
\* direct caller is done
Returned(f, result, cause) ==
  [f EXCEPT !.cpcResult = result, !.cpcCause = cause,
            !.pc = IF f.kind = "sweep" THEN "sweep_next" ELSE "done"]

\* checkPayoutConditions rethrows (PayoutService.js:61-64); the cron handler
\* catches outside its loop (server.js:163-165), so the sweep is over
Thrown(f, cause) ==
  [f EXCEPT !.cpcResult = "throw", !.cpcCause = cause, !.pc = "done",
            !.sweepResult = IF f.kind = "sweep" THEN "failed" ELSE @]

-----------------------------------------------------------------------------
(* The cron sweep of server.js and direct calls of checkPayoutConditions *)

\* a new handler takes the first free frame
FreeFrame(t) ==
  /\ evals[t].pc = "idle"
  /\ \A i \in DOMAIN TaskOrder :
       TaskOrder[i] = t => \A j \in 1..(i - 1) : evals[TaskOrder[j]].pc # "idle"

\* cron.schedule('0 * * * *'): a sweep starts, also while another runs
StartSweep(t) ==
  /\ running = NoTask
  /\ FreeFrame(t)
  /\ LET active == getActivePolicies
     IN  evals' = [evals EXCEPT ![t] =
                     [IdleFrame EXCEPT !.kind = "sweep", !.pc = "sweep_next",
                                       !.enumerated = active, !.queue = active]]
  /\ running' = t
  /\ UNCHANGED <<now, ticks, nodeEnv, policies, farmers, payoutHistory, cache,
                 ledger, calc, client>>

\* the loop of the cron handler: the next policy, or the end of the sweep
SweepNext(t) ==
  /\ running = t
  /\ evals[t].pc = "sweep_next"
  /\ LET f == evals[t]
     IN  IF f.queue = <<>>
         THEN /\ evals' = [evals EXCEPT ![t] =
                             [f EXCEPT !.pc = "done", !.sweepResult = "completed"]]
              /\ running' = t
         ELSE /\ evals' = [evals EXCEPT ![t] =
                             EnterCheck([f EXCEPT !.queue = Tail(@),
                                                  !.evaluated = @ \cup {Head(f.queue)}],
                                        policies[Head(f.queue)])]
              /\ running' = t
  /\ UNCHANGED <<now, ticks, nodeEnv, policies, farmers, payoutHistory, cache,
                 ledger, calc, client>>

\* the policy objects a caller can hand to checkPayoutConditions: a stored
\* policy, or one whose cover starts a day later
CheckInputs ==
  {policies[i] : i \in DOMAIN policies}
    \cup {[policies[i] EXCEPT !.startDate = @ + DayMs, !.endDate = @ + DayMs] :
            i \in DOMAIN policies}

\* checkPayoutConditions(policy) called on its own
StartCheck(t, policy) ==
  /\ running = NoTask
  /\ FreeFrame(t)
  /\ evals' = [evals EXCEPT ![t] =
                 EnterCheck([IdleFrame EXCEPT !.kind = "direct"], policy)]
  /\ running' = t
  /\ UNCHANGED <<now, ticks, nodeEnv, policies, farmers, payoutHistory, cache,
                 ledger, calc, client>>

\* checkPayoutConditions up to its first await: the eligibility gate, then
\* getWeatherHistory up to the provider call
CheckEntry(t) ==
  /\ running = t
  /\ evals[t].pc = "check"
  /\ LET f == evals[t]
     IN  IF ~isPolicyEligible(f.cur)
         THEN /\ evals' = [evals EXCEPT ![t] = Returned(f, "null", "not_eligible")]
              /\ running' = t
         ELSE IF CacheHit(f.cur.deviceId)
         THEN /\ evals' = [evals EXCEPT ![t] =
                             [f EXCEPT !.asked = TRUE, !.pc = "analyze",
                                       !.data = cache[f.cur.deviceId].data]]
              /\ running' = t
         ELSE /\ evals' = [evals EXCEPT ![t] =
                             [f EXCEPT !.asked = TRUE, !.pc = "fetch"]]
              /\ running' = NoTask
  /\ UNCHANGED <<now, ticks, nodeEnv, policies, farmers, payoutHistory, cache,
                 ledger, calc, client>>

\* the provider answers: getWeatherHistory caches and returns the data
FetchOk(t, weatherData) ==
  /\ running = NoTask
  /\ evals[t].pc = "fetch"
  /\ cache' = [cache EXCEPT ![evals[t].cur.deviceId] =
                 [present |-> TRUE, data |-> weatherData, timestamp |-> now]]
  /\ evals' = [evals EXCEPT ![t] = [@ EXCEPT !.pc = "analyze", !.data = weatherData]]
  /\ running' = t
  /\ UNCHANGED <<now, ticks, nodeEnv, policies, farmers, payoutHistory, ledger,
                 calc, client>>

\* the provider call fails: getWeatherHistory returns mock data in
\* development and throws otherwise; checkPayoutConditions rethrows
FetchFail(t, mockData) ==
  /\ running = NoTask
  /\ evals[t].pc = "fetch"
  /\ LET f == [evals[t] EXCEPT !.fetchFailed = TRUE]
     IN  IF nodeEnv = "development"
         THEN /\ evals' = [evals EXCEPT ![t] =
                             [f EXCEPT !.pc = "analyze", !.data = mockData]]
              /\ running' = t
         ELSE /\ evals' = [evals EXCEPT ![t] = Thrown(f, "weather_unavailable")]
              /\ running' = t
  /\ UNCHANGED <<now, ticks, nodeEnv, policies, farmers, payoutHistory, cache,
                 ledger, calc, client>>

\* checkPayoutConditions with the weather data: the empty-data return, or
\* the analysis
Analyze(t) ==
  /\ running = t
  /\ evals[t].pc = "analyze"
  /\ LET f == evals[t]
         analysis == analyzeWeatherConditions(f.data, PolicyThresholds(f.cur))
     IN  IF f.data = <<>>
         THEN /\ evals' = [evals EXCEPT ![t] = Returned(f, "null", "no_data")]
              /\ running' = t
         ELSE /\ evals' = [evals EXCEPT ![t] =
                             [f EXCEPT !.pc = "trigger_loop",
                                       !.detected = analysis.triggers,
                                       !.triggers = analysis.triggers]]
              /\ running' = t
  /\ UNCHANGED <<now, ticks, nodeEnv, policies, farmers, payoutHistory, cache,
                 ledger, calc, client>>

\* the trigger loop: the end of checkPayoutConditions, or processPayout for
\* the next trigger up to the ledger call
TriggerLoop(t) ==
  /\ running = t
  /\ evals[t].pc = "trigger_loop"
  /\ LET f == evals[t]
     IN  IF f.triggers = <<>>
         THEN /\ evals' = [evals EXCEPT ![t] = Returned(f, "analysis", "none")]
              /\ running' = t
         ELSE
           LET trigger == Head(f.triggers)
               payoutAmount ==
                 calculatePayoutAmount(f.cur.coverageAmount, trigger.severity,
                                       trigger.type)
               g == [f EXCEPT !.triggers = Tail(@),
                              !.attempted = Append(@, trigger),
                              !.trig = trigger, !.amount = payoutAmount,
                              !.txId = 0, !.ledgerResult = "none"]
           IN  IF payoutAmount <= 0
               THEN /\ evals' = [evals EXCEPT ![t] = [g EXCEPT !.ppResult = "null_no_amount"]]
                    /\ running' = t
               ELSE IF isDuplicatePayout(f.cur.id, trigger.type)
               THEN /\ evals' = [evals EXCEPT ![t] = [g EXCEPT !.ppResult = "null_duplicate"]]
                    /\ running' = t
               ELSE /\ evals' = [evals EXCEPT ![t] =
                                   [g EXCEPT !.ppResult = "pending", !.pc = "settle_submit"]]
                    /\ running' = NoTask
  /\ UNCHANGED <<now, ticks, nodeEnv, policies, farmers, payoutHistory, cache,
                 ledger, calc, client>>

\* the handler has returned or thrown: its frame is free again
Finish(t) ==
  /\ running = t
  /\ evals[t].pc = "done"
  /\ evals' = [evals EXCEPT ![t] = IdleFrame]
  /\ running' = NoTask
  /\ UNCHANGED <<now, ticks, nodeEnv, policies, farmers, payoutHistory, cache,
                 ledger, calc, client>>

-----------------------------------------------------------------------------
(* PayoutService.processPayout around AlgorandService.processPayout *)

\* the message of the error AlgorandService.processPayout throws, whatever
\* the call that failed inside it
PayoutErrorMessage == "Failed to process payout"

\* the ledger answers no further call once the history, with the transfers
\* awaiting confirmation, holds MaxRecords records
LedgerAnswers ==
  Len(payoutHistory) + Cardinality({u \in Tasks : evals[u].pc = "settle_wait"})
    < MaxRecords

\* sendRawTransaction accepted the transfer: it is on the ledger
LedgerSubmitOk(t) ==
  /\ running = NoTask
  /\ evals[t].pc = "settle_submit"
  /\ LedgerAnswers
  /\ LET f == evals[t]
         txId == Len(ledger) + 1
     IN  /\ ledger' = Append(ledger,
                        [txId |-> txId,
                         policyHolderAddress |-> f.cur.farmerId,
                         payoutAmount |-> f.amount * MicroAlgos,
                         weatherDataHash |-> createWeatherDataHash(f.data),
                         policyId |-> f.cur.id,
                         triggerType |-> f.trig.type])
         /\ evals' = [evals EXCEPT ![t] = [f EXCEPT !.pc = "settle_wait", !.txId = txId]]
  /\ UNCHANGED <<now, ticks, nodeEnv, policies, farmers, payoutHistory, cache,
                 running, calc, client>>

\* the catch block of processPayout: a failed record, then the rethrow, which
\* checkPayoutConditions passes on to its caller
PayoutFailed(t, message) ==
  /\ payoutHistory' = Append(payoutHistory,
                             FailedRecord(evals[t].cur, evals[t].trig, message))
  /\ evals' = [evals EXCEPT ![t] =
                 Thrown([@ EXCEPT !.ledgerResult = "threw", !.ppResult = "throw"],
                        "settlement_failed")]
  /\ running' = t

\* getTransactionParams or sendRawTransaction throws: nothing was sent
LedgerSubmitFail(t) ==
  /\ running = NoTask
  /\ evals[t].pc = "settle_submit"
  /\ LedgerAnswers
  /\ PayoutFailed(t, PayoutErrorMessage)
  /\ UNCHANGED <<now, ticks, nodeEnv, policies, farmers, cache, ledger, calc, client>>

\* waitForTransaction returns: processPayout stores the completed record and
\* the trigger loop goes on
LedgerConfirm(t) ==
  /\ running = NoTask
  /\ evals[t].pc = "settle_wait"
  /\ LET f == evals[t]
     IN  /\ payoutHistory' = Append(payoutHistory,
                               CompletedRecord(f.cur, f.trig, f.amount,
                                               createWeatherDataHash(f.data), f.txId))
         /\ evals' = [evals EXCEPT ![t] =
                        [f EXCEPT !.ledgerResult = "returned", !.ppResult = "record",
                                  !.pc = "trigger_loop"]]
  /\ running' = t
  /\ UNCHANGED <<now, ticks, nodeEnv, policies, farmers, cache, ledger, calc, client>>

\* waitForTransaction throws after the transaction was sent
LedgerWaitFail(t) ==
  /\ running = NoTask
  /\ evals[t].pc = "settle_wait"
  /\ PayoutFailed(t, PayoutErrorMessage)
  /\ UNCHANGED <<now, ticks, nodeEnv, policies, farmers, cache, ledger, calc, client>>

-----------------------------------------------------------------------------
(* The system: registry calls, the clock, and the evaluations *)

Devices == {"dev1"}
FarmerIds == {"farmerA"}
CropInputs == {"wheat", "barley"}
CoverageInputs == {1000}
DurationInputs == {1}
StatusInputs == {"active", "cancelled"}

\* no webhook request yet
NoRequest ==
  [kind |-> "none", type |-> "none", signature |-> <<>>, verified |-> "none",
   status |-> 0, lookups |-> 0]

\* no analysis called yet
NoProbe == [kind |-> "none"]

\* `let lastError;`: no error caught yet
NoError == [response |-> FALSE, status |-> 0, caught |-> FALSE]

\* no fetchWithRetry call yet
NoFetch ==
  [pc |-> "idle", attempt |-> 0, errors |-> <<>>, lastError |-> NoError]

\* a slot of dataCache without an entry
NoCacheEntry ==
  [present |-> FALSE, data |-> [temperature |-> 0, precipitation |-> 0],
   timestamp |-> 0, ttl |-> 0]

\* a caller of getCurrentWeather that is not in a call
NoCall ==
  [pc |-> "idle", deviceId |-> "", hit |-> FALSE,
   data |-> [temperature |-> 0, precipitation |-> 0]]

\* no getFromCache call made on its own yet
NoLookup ==
  [called |-> FALSE, key |-> "", hit |-> FALSE, stored |-> FALSE, age |-> 0,
   cacheTimeout |-> 0, removed |-> FALSE]

\* WeatherXMService after its constructor: an empty dataCache (the key
\* current_<deviceId> is carried as the deviceId), cacheTimeout 15 minutes
NewClient ==
  [dataCache |-> [d \in {"dev1"} |-> NoCacheEntry],
   cacheTimeout |-> 15 * 60 * 1000,
   calls |-> [c \in Tasks |-> NoCall],
   fetches |-> 0,
   got |-> NoLookup]

\* a caller that is not inside enforceRateLimit
NoCaller == [pc |-> "idle", entered |-> 0, wake |-> 0, waited |-> FALSE]

\* the rate-limit gate after the constructor: requestCounts (the keys of the
\* Map), the callers inside enforceRateLimit, the times requests were sent
NewGate ==
  [requestCounts |-> {},
   callers |-> [c \in Tasks |-> NoCaller],
   sent |-> <<>>]

Init ==
  /\ now = 0
  /\ ticks = 0
  /\ nodeEnv \in {"production", "development"}
  /\ policies = <<>>
  /\ farmers = <<>>
  /\ payoutHistory = <<>>
  /\ cache = [d \in Devices |-> NoEntry]
  /\ ledger = <<>>
  /\ evals = [t \in Tasks |-> IdleFrame]
  /\ running = NoTask
  /\ calc = [called |-> FALSE, coverageAmount |-> 0, severity |-> "none",
             type |-> "none", result |-> 0]
  /\ hook = NoRequest
  /\ probe = NoProbe
  /\ retry = NoFetch
  /\ wx = NewClient
  /\ gate = NewGate

\* The registry holds at most `limit` policies, all issued before the clock
\* first advances: every comparison of times in the code is a comparison of
\* differences, so a later issue date is an earlier one seen through a
\* shorter horizon.
Environment(limit) ==
  \/ \E d \in TickSteps : Tick(d)
  \/ /\ Len(policies) < limit
     /\ ticks = 0
     /\ \E farmerId \in FarmerIds, cropType \in CropInputs,
           coverageAmount \in CoverageInputs, deviceId \in Devices,
           duration \in DurationInputs :
          CreatePolicy(farmerId, cropType, coverageAmount, deviceId, duration)
  \/ \E policyId \in DOMAIN policies, status \in StatusInputs :
       UpdatePolicyStatus(policyId, status)

Evaluation(t) ==
  \/ StartSweep(t)
  \/ SweepNext(t)
  \/ \E policy \in CheckInputs : StartCheck(t, policy)
  \/ CheckEntry(t)
  \/ \E weatherData \in WeatherSamples : FetchOk(t, weatherData)
  \/ \E mockData \in MockSamples : FetchFail(t, mockData)
  \/ Analyze(t)
  \/ TriggerLoop(t)
  \/ LedgerSubmitOk(t)
  \/ LedgerSubmitFail(t)
  \/ LedgerConfirm(t)
  \/ LedgerWaitFail(t)
  \/ Finish(t)

\* One evaluation at a time, one policy
Next == Environment(MaxPolicies) \/ Evaluation(TaskOrder[1])

Spec == Init /\ [][Next]_vars

\* One sweep at a time over a registry of several policies
NextSweep == Environment(MaxPolicies + 1) \/ Evaluation(TaskOrder[1])

SpecSweep == Init /\ [][NextSweep]_vars

\* Overlapping evaluations: a sweep still awaits the ledger when cron fires
\* the next one
NextOverlap == Environment(MaxPolicies) \/ \E t \in Tasks : Evaluation(t)

SpecOverlap == Init /\ [][NextOverlap]_vars

-----------------------------------------------------------------------------
(* calculatePayoutAmount called on its own, on bounded inputs *)

CoverageSamples == ((0 - MaxCoverage)..MaxCoverage) \cup {1000}
SeveritySamples == Severities \cup {"unknown"}
TypeSamples == TriggerTypes \cup {"wind"}

Calculate(coverageAmount, severity, type) ==
  /\ calc' = [called |-> TRUE, coverageAmount |-> coverageAmount,
              severity |-> severity, type |-> type,
              result |-> calculatePayoutAmount(coverageAmount, severity, type)]
  /\ UNCHANGED <<now, ticks, nodeEnv, policies, farmers, payoutHistory, cache,
                 ledger, evals, running, client>>

NextAmount ==
  \E coverageAmount \in CoverageSamples, severity \in SeveritySamples,
     type \in TypeSamples :
    Calculate(coverageAmount, severity, type)

SpecAmount == Init /\ [][NextAmount]_vars

-----------------------------------------------------------------------------
(* Claims about calculatePayoutAmount *)

\* the multipliers as the specification states them, times 10
StatedSeverity10(severity) ==
  IF severity = "severe" THEN 20 ELSE IF severity = "moderate" THEN 10 ELSE 5

StatedType10(type) ==
  IF type = "drought" THEN 15 ELSE IF type = "flooding" THEN 13 ELSE 12

\* C7: for every coverage amount, severity and trigger type the amount is
\* floor(min(coverage x 0.10 x severityMult x typeMult, coverage x 0.5)),
\* with severe 2.0, moderate 1.0, any other severity 0.5, and drought 1.5,
\* flooding 1.3, excessive_heat 1.2; coverage 1000, flooding, severe is 260.
\* The floor r of x is the integer with r <= x < r + 1 (here times 1000).
C7_AmountFormula ==
  (calc.called /\ calc.type \in TriggerTypes) =>
    LET stated1000 ==
          Min(calc.coverageAmount * StatedSeverity10(calc.severity)
                * StatedType10(calc.type),
              calc.coverageAmount * 500)
    IN  /\ calc.result * 1000 <= stated1000
        /\ stated1000 < calc.result * 1000 + 1000
        /\ (calc.coverageAmount = 1000 /\ calc.type = "flooding"
              /\ calc.severity = "severe") => calc.result = 260

C7_Witness ==
  /\ calc.called
  /\ calc.coverageAmount = 1000
  /\ calc.type = "flooding"
  /\ calc.severity = "severe"
  /\ calc.result = 260

SeverityRank(severity) ==
  IF severity = "severe" THEN 3 ELSE IF severity = "moderate" THEN 2 ELSE 1

\* C8: for a fixed trigger type and a non-negative coverage the amount does
\* not decrease as the severity rises (mild <= moderate <= severe), and for
\* every input the amount is at most half the coverage.
C8_MonotoneAndCapped ==
  calc.called =>
    /\ 2 * calc.result <= calc.coverageAmount
    /\ (calc.coverageAmount >= 0 /\ calc.severity \in Severities) =>
         \A higher \in Severities :
           SeverityRank(higher) >= SeverityRank(calc.severity) =>
             calc.result <= calculatePayoutAmount(calc.coverageAmount, higher,
                                                  calc.type)

C8_Witness ==
  /\ calc.called
  /\ calc.coverageAmount = MaxCoverage
  /\ calc.severity = "mild"
  /\ calc.type = "drought"
  /\ calc.result < calculatePayoutAmount(calc.coverageAmount, "moderate", calc.type)
  /\ calculatePayoutAmount(calc.coverageAmount, "moderate", calc.type)
       < calculatePayoutAmount(calc.coverageAmount, "severe", calc.type)

-----------------------------------------------------------------------------
(* Claims about the payout decision flow *)

\* a completed record of the pair (policyId, triggerType)
CompletedFor(r, policyId, triggerType) ==
  /\ r.policyId = policyId
  /\ r.triggerType = triggerType
  /\ r.status = "completed"

\* C1: for any interleaving of concurrent evaluations of the same policy and
\* trigger type, two evaluations never both pass the isDuplicatePayout check
\* and both call algorandService.processPayout within one 24-hour window
\* (stated for the evaluations that run before the clock first advances).
C1_AtMostOneSettlement ==
  ticks = 0 =>
    \A t, u \in Tasks :
      (t # u /\ evals[t].pc \in LedgerPcs /\ evals[u].pc \in LedgerPcs) =>
        ~(/\ evals[t].cur.id = evals[u].cur.id
          /\ evals[t].trig.type = evals[u].trig.type)

\* two transfers sent and two completed records stored for one pair at the
\* same instant
C1_PaidTwice ==
  \E i, j \in DOMAIN payoutHistory :
    /\ i < j
    /\ CompletedFor(payoutHistory[j], payoutHistory[i].policyId,
                    payoutHistory[i].triggerType)
    /\ payoutHistory[i].status = "completed"
    /\ payoutHistory[j].timestamp = payoutHistory[i].timestamp
    /\ payoutHistory[i].transactionId # payoutHistory[j].transactionId
    /\ Len(ledger) = 2

\* C2: with one evaluation running after the other, a trigger whose pair has
\* a completed record younger than 24 hours is dropped: the step submits no
\* settlement and adds no record, so two completed records of one pair are
\* never less than 24 hours apart.
C2_Idempotent ==
  /\ [](\A i, j \in DOMAIN payoutHistory :
          (/\ i < j
           /\ payoutHistory[i].status = "completed"
           /\ CompletedFor(payoutHistory[j], payoutHistory[i].policyId,
                           payoutHistory[i].triggerType)) =>
            payoutHistory[j].timestamp - payoutHistory[i].timestamp
              >= 24 * 60 * 60 * 1000)
  /\ [][\A t \in Tasks :
          (/\ evals[t].pc = "trigger_loop"
           /\ evals[t].triggers # <<>>
           /\ evals'[t] # evals[t]
           /\ \E i \in DOMAIN payoutHistory :
                /\ CompletedFor(payoutHistory[i], evals[t].cur.id,
                                Head(evals[t].triggers).type)
                /\ now - payoutHistory[i].timestamp < 24 * 60 * 60 * 1000) =>
            /\ payoutHistory' = payoutHistory
            /\ ledger' = ledger
            /\ evals'[t].pc = "trigger_loop"
            /\ evals'[t].ppResult \in {"null_duplicate", "null_no_amount"}]_vars

\* the second call found the record of the first and dropped the trigger
C2_Witness ==
  \E t \in Tasks :
    /\ evals[t].ppResult = "null_duplicate"
    /\ Cardinality({i \in DOMAIN payoutHistory :
                      CompletedFor(payoutHistory[i], evals[t].cur.id,
                                   evals[t].trig.type)}) = 1
    /\ Cardinality({i \in DOMAIN ledger :
                      /\ ledger[i].policyId = evals[t].cur.id
                      /\ ledger[i].triggerType = evals[t].trig.type}) = 1

\* C3: in a sweep, a settlement failure while evaluating one policy does not
\* abort the batch: every policy enumerated for the sweep is still handed to
\* checkPayoutConditions.
C3_SweepIsolatesFailures ==
  \A t \in Tasks :
    (/\ evals[t].kind = "sweep"
     /\ evals[t].pc = "done"
     /\ evals[t].cpcCause = "settlement_failed") =>
      \A policyId \in Range(evals[t].enumerated) : policyId \in evals[t].evaluated

\* C4: when the ledger call throws, processPayout adds exactly one record,
\* with status failed, amount 0 and the error message, adds no completed
\* record, and rethrows to its caller.
C4_FailedRecordAndRethrow ==
  [][\A t \in Tasks :
       (evals[t].pc \in LedgerPcs /\ evals'[t].ledgerResult = "threw") =>
         /\ Len(payoutHistory') = Len(payoutHistory) + 1
         /\ SubSeq(payoutHistory', 1, Len(payoutHistory)) = payoutHistory
         /\ LET r == payoutHistory'[Len(payoutHistory')]
            IN  /\ r.status = "failed"
                /\ r.payoutAmount = 0
                /\ r.error = PayoutErrorMessage
                /\ r.policyId = evals[t].cur.id
                /\ r.triggerType = evals[t].trig.type
         /\ evals'[t].ppResult = "throw"]_vars

\* the ledger threw on the only settlement ever tried
C4_Witness ==
  \E t \in Tasks :
    /\ evals[t].pc = "done"
    /\ evals[t].ledgerResult = "threw"
    /\ evals[t].ppResult = "throw"
    /\ Len(payoutHistory) = 1
    /\ payoutHistory[1].status = "failed"
    /\ payoutHistory[1].payoutAmount = 0
    /\ evals[t].amount > 0

\* the evidence fetch of this evaluation came back empty or failed
NoEvidence(f) ==
  /\ f.asked
  /\ f.pc # "fetch"
  /\ (f.fetchFailed \/ f.data = <<>>)

\* C5: when the evidence fetch returns an empty list or the weather data is
\* unavailable, checkPayoutConditions raises no error, submits no settlement
\* and creates no payout record.
C5_NoEvidenceNoOp ==
  \A t \in Tasks :
    NoEvidence(evals[t]) =>
      /\ evals[t].cpcResult # "throw"
      /\ evals[t].pc \notin LedgerPcs
      /\ evals[t].attempted = <<>>

\* eligibility as the specification states it
StatedIneligible(policy) ==
  \/ policy.status # "active"
  \/ now < policy.startDate
  \/ now > policy.endDate

\* C6: checkPayoutConditions on a policy that is not active, not yet started
\* or already ended returns without error, requests no weather data, submits
\* no settlement and adds no payout record.
C6_IneligibleNoOp ==
  [][\A t \in Tasks :
       (/\ evals[t].pc = "check"
        /\ evals'[t] # evals[t]
        /\ StatedIneligible(evals[t].cur)) =>
         /\ evals'[t].cpcResult = "null"
         /\ ~evals'[t].asked
         /\ evals'[t].pc \in {"done", "sweep_next"}
         /\ payoutHistory' = payoutHistory
         /\ ledger' = ledger
         /\ cache' = cache]_vars

\* an active policy evaluated after its end date
C6_Witness ==
  \E t \in Tasks :
    /\ evals[t].pc = "done"
    /\ evals[t].cpcResult = "null"
    /\ evals[t].cpcCause = "not_eligible"
    /\ evals[t].cur.status = "active"
    /\ now > evals[t].cur.endDate
    /\ ~evals[t].asked

\* C9: when one evaluation detects several triggers, the suppression check
\* and the settlement are attempted for every one of them, also when the
\* settlement of an earlier one fails.
C9_EveryTriggerProcessed ==
  \A t \in Tasks :
    evals[t].cpcResult # "none" => evals[t].attempted = evals[t].detected

\* C10: once a completed payout record is stored and the handlers are done,
\* the policy's claimHistory holds a claim and the farmer's totalClaims
\* covers the amount paid.
C10_RegistryUpdated ==
  (\A t \in Tasks : evals[t].pc = "idle") =>
    \A i \in DOMAIN payoutHistory :
      payoutHistory[i].status = "completed" =>
        LET policy == policies[payoutHistory[i].policyId]
        IN  /\ policy.claimHistory # <<>>
            /\ farmers[policy.farmerId].totalClaims >= payoutHistory[i].payoutAmount

-----------------------------------------------------------------------------
(* WeatherXMWebhookService: the weather-alert endpoint.  A request is its   *)
(* alert type (the body, and so the payload JSON.stringify makes of it) and *)
(* its x-weatherxm-signature header, a string over SigChars.  The handler   *)
(* keeps no state between requests, so a behaviour holds one request.       *)

\* bytes of an HMAC digest (32 for SHA-256)
DigestBytes == 2

\* two hex digits that differ only in case, and a character that is none
SigChars == {"0", "a", "A", "z"}

AlertOrder ==
  <<"severe_weather", "temperature_extreme", "wind_extreme", "heartbeat">>
AlertTypes == {AlertOrder[i] : i \in DOMAIN AlertOrder}

Signatures == UNION {[1..n -> SigChars] : n \in 0..(2 * DigestBytes + 1)}

\* the value of a hex digit, -1 for any other character
HexValue(c) ==
  IF c = "0" THEN 0 ELSE IF c \in {"a", "A"} THEN 10 ELSE 0 - 1

\* Buffer.from(string, 'hex'): one byte for each pair of hex digits, up to
\* the first pair that is not two hex digits; an odd last character is
\* dropped
RECURSIVE HexDecode(_)
HexDecode(s) ==
  IF Len(s) < 2 \/ HexValue(s[1]) < 0 \/ HexValue(s[2]) < 0
  THEN <<>>
  ELSE <<16 * HexValue(s[1]) + HexValue(s[2])>> \o HexDecode(SubSeq(s, 3, Len(s)))

\* createHmac('sha256', secret).update(payload).digest('hex'): lower-case
\* hex digits, 2 * DigestBytes of them, different for different payloads
HmacHex(payload) ==
  LET k == CHOOSE i \in DOMAIN AlertOrder : AlertOrder[i] = payload
  IN  [i \in 1..(2 * DigestBytes) |->
         IF (k \div (2 ^ (i - 1))) % 2 = 1 THEN "a" ELSE "0"]

\* verifyWebhookSignature: crypto.timingSafeEqual throws a RangeError when
\* its buffers differ in length
verifyWebhookSignature(payload, signature) ==
  LET given == HexDecode(signature)
      expected == HexDecode(HmacHex(payload))
  IN  IF Len(given) # Len(expected) THEN "throw"
      ELSE IF given = expected THEN "true" ELSE "false"

\* verifyWebhookSignature called on its own
VerifySignature(payload, signature) ==
  /\ hook.kind = "none"
  /\ hook' = [kind |-> "verify", type |-> payload, signature |-> signature,
              verified |-> verifyWebhookSignature(payload, signature),
              status |-> 0, lookups |-> 0]
  /\ UNCHANGED <<core, probe, retry, wx, gate>>

\* the alert types whose case calls a method the class does not define
UndefinedProcessors ==
  {"temperature_extreme", "precipitation_extreme", "wind_extreme"}

\* handleWeatherAlerts: 401 on a false verification; any throw inside the
\* try block is answered 500; findAffectedPolicies returns no policy, so a
\* severe_weather alert evaluates none
HandleWeatherAlerts(type, signature) ==
  /\ hook.kind = "none"
  /\ LET verified == verifyWebhookSignature(type, signature)
         answer == [kind |-> "alert", type |-> type, signature |-> signature,
                    verified |-> verified, status |-> 0, lookups |-> 0]
     IN  hook' =
           IF verified = "throw" THEN [answer EXCEPT !.status = 500]
           ELSE IF verified = "false" THEN [answer EXCEPT !.status = 401]
           ELSE IF type = "severe_weather"
             THEN [answer EXCEPT !.status = 200, !.lookups = 1]
           ELSE IF type \in UndefinedProcessors
             THEN [answer EXCEPT !.status = 500]
           ELSE [answer EXCEPT !.status = 200]
  /\ UNCHANGED <<core, probe, retry, wx, gate>>

NextWebhook ==
  \/ \E payload \in AlertTypes, signature \in Signatures :
       VerifySignature(payload, signature)
  \/ \E type \in AlertTypes, signature \in Signatures :
       HandleWeatherAlerts(type, signature)

SpecWebhook == Init /\ [][NextWebhook]_vars

\* C11: a weather-alert request whose signature is not the HMAC of its
\* payload, whatever its length or content, is answered 401 and nothing is
\* processed (no policy lookup; the handler touches neither the registry nor
\* the payout history).
C11_InvalidSignatureUnauthorized ==
  (hook.kind = "alert" /\ hook.signature # HmacHex(hook.type)) =>
    /\ hook.status = 401
    /\ hook.lookups = 0
    /\ payoutHistory = <<>>
    /\ policies = <<>>

\* a signature that is not the digest is accepted and the alert processed
C11_ForgedAccepted ==
  /\ hook.kind = "alert"
  /\ hook.signature # HmacHex(hook.type)
  /\ hook.status = 200
  /\ hook.lookups = 1

\* C12: verifyWebhookSignature returns true for the hex HMAC of the payload
\* and returns false, without throwing, for every other signature string.
C12_VerifyTotal ==
  hook.kind = "verify" =>
    hook.verified = (IF hook.signature = HmacHex(hook.type) THEN "true" ELSE "false")

\* a signature of another length makes the function throw
C12_Throws ==
  /\ hook.kind = "verify"
  /\ Len(hook.signature) > 2 * DigestBytes
  /\ hook.verified = "throw"

-----------------------------------------------------------------------------
(* analyzeWeatherConditions called on its own, on bounded lists of          *)
(* readings.  The function keeps no state, so a behaviour holds one call.   *)

\* readings in a list
MaxReadings == 2

DaySamples == {1, 2}
TemperatureSamples == {Null, 35, 40, 41}
PrecipitationSamples == {Null, 0, 50, 51, 150}

ReadingSamples ==
  {Reading(d, t, p) : d \in DaySamples, t \in TemperatureSamples,
                      p \in PrecipitationSamples}

ReadingLists == UNION {[1..n -> ReadingSamples] : n \in 0..MaxReadings}

\* the thresholds of maize, and thresholds a few readings can satisfy
ThresholdSamples ==
  {[minMonthlyRainfall |-> CropTypes.maize.minRainfall,
    maxTemperature     |-> CropTypes.maize.maxTemperature,
    maxDailyRainfall   |-> CropTypes.maize.maxDailyRainfall],
   [minMonthlyRainfall |-> 100, maxTemperature |-> 35, maxDailyRainfall |-> 50]}

Analyse(weatherData, thresholds) ==
  /\ probe.kind = "none"
  /\ probe' = [kind |-> "analyze", weatherData |-> weatherData,
               thresholds |-> thresholds,
               analysis |-> analyzeWeatherConditions(weatherData, thresholds)]
  /\ UNCHANGED <<core, hook, retry, wx, gate>>

NextAnalyze ==
  \E weatherData \in ReadingLists, thresholds \in ThresholdSamples :
    Analyse(weatherData, thresholds)

SpecAnalyze == Init /\ [][NextAnalyze]_vars

\* the precipitation a list of readings totals, nulls apart
StatedTotal(weatherData) ==
  SumSeq([i \in DOMAIN weatherData |->
            IF weatherData[i].precipitation = Null
            THEN 0 ELSE weatherData[i].precipitation])

\* the precipitation of one calendar day
StatedDayTotal(weatherData, d) ==
  SumSeq([i \in DOMAIN weatherData |->
            IF weatherData[i].day = d /\ weatherData[i].precipitation # Null
            THEN weatherData[i].precipitation ELSE 0])

C20_CalmIsLow ==
  (/\ probe.kind = "analyze"
   /\ \A i \in DOMAIN probe.weatherData :
        \/ probe.weatherData[i].temperature = Null
        \/ probe.weatherData[i].temperature <= probe.thresholds.maxTemperature
   /\ \A i \in DOMAIN probe.weatherData :
        StatedDayTotal(probe.weatherData, probe.weatherData[i].day)
          <= probe.thresholds.maxDailyRainfall
   /\ StatedTotal(probe.weatherData) >= probe.thresholds.minMonthlyRainfall) =>
    /\ probe.analysis.triggers = <<>>
    /\ probe.analysis.riskLevel = "low"

\* two days at the daily limit that together reach the monthly minimum
C20_Witness ==
  /\ probe.kind = "analyze"
  /\ Len(probe.weatherData) = 2
  /\ probe.weatherData[1].day # probe.weatherData[2].day
  /\ \A i \in 1..2 :
       /\ probe.weatherData[i].precipitation = probe.thresholds.maxDailyRainfall
       /\ probe.weatherData[i].temperature = probe.thresholds.maxTemperature
  /\ StatedTotal(probe.weatherData) = probe.thresholds.minMonthlyRainfall
  /\ probe.analysis.triggers = <<>>
  /\ probe.analysis.riskLevel = "low"

\* the largest of the per-day precipitation totals of a list of readings
StatedMaxDayTotal(weatherData) ==
  MaxSeq([i \in DOMAIN weatherData |->
            StatedDayTotal(weatherData, weatherData[i].day)])

C22_RiskLevel ==
  probe.kind = "analyze" =>
    LET triggers == probe.analysis.triggers
        nSevere == Cardinality({k \in DOMAIN triggers : triggers[k].severity = "severe"})
        nModerate == Cardinality({k \in DOMAIN triggers : triggers[k].severity = "moderate"})
    IN  /\ (probe.analysis.riskLevel = "high") <=> (nSevere >= 1)
        /\ (probe.analysis.riskLevel = "medium") <=> (nSevere = 0 /\ nModerate >= 2)
        /\ (probe.analysis.riskLevel = "low") <=> (nSevere = 0 /\ nModerate < 2)
        /\ probe.weatherData = <<>> =>
             (triggers = <<>> /\ probe.analysis.riskLevel = "low")

\* one moderate trigger alone leaves the risk level low
C22_Witness ==
  /\ probe.kind = "analyze"
  /\ Len(probe.analysis.triggers) = 1
  /\ probe.analysis.triggers[1].severity = "moderate"
  /\ probe.analysis.riskLevel = "low"

-----------------------------------------------------------------------------
(* The two entry points on one observation: the webhook's                   *)
(* evaluateClaimConditions on an alert carrying a temperature and a         *)
(* precipitation, and checkPayoutConditions on the evidence list holding    *)
(* that one reading, for a policy of the same crop and an empty payout      *)
(* history.                                                                 *)

\* calculateSeverity: value / threshold > 2.0 severe, > 1.5 moderate
calculateSeverity(value, threshold) ==
  IF value > 2 * threshold THEN "severe"
  ELSE IF 2 * value > 3 * threshold THEN "moderate"
  ELSE "mild"

\* checkPolicyTriggers: a field that is 0 or missing is skipped
checkPolicyTriggers(crop, temperature, precipitation) ==
  LET heat ==
        IF temperature # 0 /\ temperature # Null /\ temperature > crop.maxTemperature
        THEN <<Trigger("excessive_heat",
                       calculateSeverity(temperature, crop.maxTemperature))>>
        ELSE <<>>
      flooding ==
        IF precipitation # 0 /\ precipitation # Null
             /\ precipitation > crop.maxDailyRainfall
        THEN <<Trigger("flooding",
                       calculateSeverity(precipitation, crop.maxDailyRainfall))>>
        ELSE <<>>
  IN  heat \o flooding

\* what processPayout does with a trigger when no record exists yet:
\* nothing for a non-positive amount; otherwise it hashes the weather data
\* and calls the ledger.  createWeatherDataHash calls weatherData.map, which
\* an alert object does not have: the call throws inside the try block and
\* the catch block stores a failed record.
Decision(coverageAmount, trigger, weatherDataIsList) ==
  LET payoutAmount ==
        calculatePayoutAmount(coverageAmount, trigger.severity, trigger.type)
  IN  [type |-> trigger.type, severity |-> trigger.severity,
       amount |-> payoutAmount,
       outcome |-> IF payoutAmount <= 0 THEN "none"
                   ELSE IF weatherDataIsList THEN "settlement"
                   ELSE "failed_record"]

\* evaluateClaimConditions: processPayout(policy, triggers[0], alert)
evaluateClaimConditions(cropType, coverageAmount, temperature, precipitation) ==
  LET triggers == checkPolicyTriggers(CropTypes[cropType], temperature, precipitation)
  IN  [triggers |-> triggers,
       decisions |-> IF triggers = <<>> THEN <<>>
                     ELSE <<Decision(coverageAmount, triggers[1], FALSE)>>]

\* checkPayoutConditions from the analysis on: processPayout for every
\* trigger, with the evidence list
sweepEvaluation(cropType, coverageAmount, temperature, precipitation) ==
  LET analysis ==
        analyzeWeatherConditions(
          <<Reading(1, temperature, precipitation)>>,
          [minMonthlyRainfall |-> CropTypes[cropType].minRainfall,
           maxTemperature     |-> CropTypes[cropType].maxTemperature,
           maxDailyRainfall   |-> CropTypes[cropType].maxDailyRainfall])
  IN  [triggers |-> analysis.triggers,
       decisions |-> [k \in DOMAIN analysis.triggers |->
                        Decision(coverageAmount, analysis.triggers[k], TRUE)]]

AlertTemperatures == {0, 30, 36, 41, 50, 60, 71, 81}
AlertPrecipitations == {0, 40, 60, 90, 130, 170}

EvaluateBothPaths(cropType, temperature, precipitation) ==
  /\ probe.kind = "none"
  /\ probe' = [kind |-> "paths", cropType |-> cropType,
               temperature |-> temperature, precipitation |-> precipitation,
               push |-> evaluateClaimConditions(cropType, 1000, temperature,
                                                precipitation),
               sweep |-> sweepEvaluation(cropType, 1000, temperature,
                                         precipitation)]
  /\ UNCHANGED <<core, hook, retry, wx, gate>>

NextPaths ==
  \E cropType \in DOMAIN CropTypes, temperature \in AlertTemperatures,
     precipitation \in AlertPrecipitations :
    EvaluateBothPaths(cropType, temperature, precipitation)

SpecPaths == Init /\ [][NextPaths]_vars

\* the triggers and decisions of the two kinds an alert can carry
AlertKinds == {"excessive_heat", "flooding"}

\* C13: for the same policy, temperature, precipitation and thresholds the
\* webhook path and the sweep path produce the same trigger types with the
\* same severities and the same payout decisions (compared on excessive
\* heat and flooding, the triggers both paths know).
C13_PathsConverge ==
  probe.kind = "paths" =>
    /\ Range(probe.push.triggers)
         = {t \in Range(probe.sweep.triggers) : t.type \in AlertKinds}
    /\ Range(probe.push.decisions)
         = {d \in Range(probe.sweep.decisions) : d.type \in AlertKinds}

\* the two paths agree on the trigger and still decide differently
C13_SameTriggerOtherDecision ==
  /\ probe.kind = "paths"
  /\ probe.push.triggers # <<>>
  /\ Range(probe.push.triggers)
       = {t \in Range(probe.sweep.triggers) : t.type \in AlertKinds}
  /\ Range(probe.push.decisions)
       # {d \in Range(probe.sweep.decisions) : d.type \in AlertKinds}

-----------------------------------------------------------------------------
(* WeatherXMService.fetchWithRetry.  retry.pc is                            *)
(*   idle      no call in flight                                            *)
(*   request   awaiting httpClient.request of attempt retry.attempt         *)
(*   sleep     awaiting the backoff delay                                   *)
(*   returned  the response was returned                                    *)
(*   thrown    lastError was thrown                                         *)
(* retry.errors lists the failures of the attempts made so far.             *)

RetryAttempts == 3

\* an axios error: without a response (network error, timeout) or with the
\* status of the response
NetworkError == [response |-> FALSE, status |-> 0, caught |-> TRUE]
HttpError(status) == [response |-> TRUE, status |-> status, caught |-> TRUE]

ErrorStatuses == {400, 401, 403, 404, 429, 500, 503}
RequestErrors == {NetworkError} \cup {HttpError(status) : status \in ErrorStatuses}

\* a slip: every error status is retried
isRetryableErrorSlip(error) ==
  \/ ~error.response
  \/ error.status >= 400

isRetryableError(error) ==
  \/ ~error.response
  \/ error.status >= 500
  \/ error.status = 429

\* fetchWithRetry up to the first request
FetchWithRetry ==
  /\ retry.pc = "idle"
  /\ retry' = IF 1 <= RetryAttempts
              THEN [NoFetch EXCEPT !.pc = "request", !.attempt = 1]
              ELSE [NoFetch EXCEPT !.pc = "thrown"]
  /\ UNCHANGED <<core, hook, probe, wx, gate>>

\* the request of this attempt is answered: fetchWithRetry returns it
RequestOk ==
  /\ retry.pc = "request"
  /\ retry' = [retry EXCEPT !.pc = "returned"]
  /\ UNCHANGED <<core, hook, probe, wx, gate>>

\* the request of this attempt fails: break and throw, or back off
RequestFail(error) ==
  /\ retry.pc = "request"
  /\ retry' = [retry EXCEPT
                 !.lastError = error,
                 !.errors = Append(@, error),
                 !.pc = IF ~isRetryableError(error) \/ retry.attempt = RetryAttempts
                        THEN "thrown" ELSE "sleep"]
  /\ UNCHANGED <<core, hook, probe, wx, gate>>

\* the backoff delay is over: the next turn of the loop
BackoffOver ==
  /\ retry.pc = "sleep"
  /\ retry' = IF retry.attempt + 1 <= RetryAttempts
              THEN [retry EXCEPT !.attempt = @ + 1, !.pc = "request"]
              ELSE [retry EXCEPT !.attempt = @ + 1, !.pc = "thrown"]
  /\ UNCHANGED <<core, hook, probe, wx, gate>>

\* the caller has the outcome; the next call can start
FetchDone ==
  /\ retry.pc \in {"returned", "thrown"}
  /\ retry' = NoFetch
  /\ UNCHANGED <<core, hook, probe, wx, gate>>

NextRetry ==
  \/ FetchWithRetry
  \/ RequestOk
  \/ \E error \in RequestErrors : RequestFail(error)
  \/ BackoffOver
  \/ FetchDone

SpecRetry == Init /\ [][NextRetry]_vars

\* retryable as the specification states it: no response, or 429, or 5xx
StatedRetryable(error) ==
  \/ ~error.response
  \/ error.status = 429
  \/ (error.status >= 500 /\ error.status <= 599)

\* C14: fetchWithRetry makes at most 3 attempts; a further attempt follows
\* only a retryable failure; a non-retryable failure ends the call with
\* that error after exactly that attempt; a success returns at once; when
\* all attempts fail the last error is raised.
C14_RetryPolicy ==
  LET made == Len(retry.errors) IN
  /\ retry.attempt <= 3
  /\ made <= retry.attempt
  /\ \A i \in 1..made : i < retry.attempt => StatedRetryable(retry.errors[i])
  /\ (made > 0 /\ ~StatedRetryable(retry.errors[made])) =>
       /\ retry.pc = "thrown"
       /\ retry.attempt = made
  /\ made = 3 => retry.pc = "thrown"
  /\ retry.pc = "sleep" =>
       /\ made = retry.attempt
       /\ made < 3
       /\ StatedRetryable(retry.errors[made])
  /\ retry.pc = "returned" => made = retry.attempt - 1
  /\ retry.pc = "thrown" =>
       /\ made = retry.attempt
       /\ retry.lastError = retry.errors[made]
       /\ (made = 3 \/ ~StatedRetryable(retry.errors[made]))

\* three retryable failures of different kinds, then the last one is thrown
C14_Witness ==
  /\ retry.pc = "thrown"
  /\ retry.errors = <<NetworkError, HttpError(429), HttpError(503)>>
  /\ retry.lastError = HttpError(503)

-----------------------------------------------------------------------------
(* WeatherXMService.getCurrentWeather and its cache (the same code in       *)
(* WeatherXMIntegrationService).  A call runs to its await of               *)
(* fetchWithRetry in one step and from the answer to its end in a second;   *)
(* calls of several callers overlap.  wx.fetches counts the fetchWithRetry  *)
(* calls made.                                                              *)

\* fetchWithRetry calls in a behaviour
MaxFetches == 2

\* the ttl getCurrentWeather passes to setCache
CurrentTtl == 5 * 60 * 1000

\* the clock between two calls: the 150 ms the test waits, 5 minutes, and
\* just over 15 minutes
ClientSteps == {150, 5 * 60 * 1000, 15 * 60 * 1000 + 1}

\* cacheTimeout as configured: the test's 100 ms, and the default
CacheTimeoutSamples == {100, 15 * 60 * 1000}

\* response.data of /devices/<id>/current
RawReadings ==
  {[temperature |-> 30, precipitation |-> Null],
   [temperature |-> Null, precipitation |-> 5]}

\* normalizeWeatherData: `rawData.x || 0`
normalizeWeatherData(rawData) ==
  [temperature |-> IF rawData.temperature = Null THEN 0 ELSE rawData.temperature,
   precipitation |-> IF rawData.precipitation = Null THEN 0 ELSE rawData.precipitation]

\* getFromCache: the entry exists and is younger than its ttl
CacheFresh(entry) ==
  /\ entry.present
  /\ now - entry.timestamp < entry.ttl

\* getFromCache: dataCache after the call (a miss deletes the key)
AfterGetFromCache(key) ==
  IF CacheFresh(wx.dataCache[key])
  THEN wx.dataCache
  ELSE [wx.dataCache EXCEPT ![key] = NoCacheEntry]

\* setCache(key, data, ttl)
setCache(dataCache, key, data, ttl) ==
  [dataCache EXCEPT ![key] =
     [present |-> TRUE, data |-> data, timestamp |-> now, ttl |-> ttl]]

\* `weatherService.cacheTimeout = ...`
SetCacheTimeout(timeout) ==
  /\ wx' = [wx EXCEPT !.cacheTimeout = timeout]
  /\ UNCHANGED <<core, hook, probe, retry, gate>>

\* getCurrentWeather up to its return on a hit, or to the await of
\* fetchWithRetry on a miss
GetCurrentWeather(c, deviceId) ==
  /\ wx.calls[c].pc = "idle"
  /\ IF CacheFresh(wx.dataCache[deviceId])
     THEN wx' = [wx EXCEPT !.calls[c] =
                   [pc |-> "returned", deviceId |-> deviceId, hit |-> TRUE,
                    data |-> wx.dataCache[deviceId].data]]
     ELSE /\ wx.fetches < MaxFetches
          /\ wx' = [wx EXCEPT !.dataCache = AfterGetFromCache(deviceId),
                              !.fetches = @ + 1,
                              !.calls[c] = [NoCall EXCEPT !.pc = "fetching",
                                                          !.deviceId = deviceId]]
  /\ UNCHANGED <<core, hook, probe, retry, gate>>

\* fetchWithRetry returned a response: normalize, cache for 5 minutes, return
CurrentFetchOk(c, rawData) ==
  /\ wx.calls[c].pc = "fetching"
  /\ LET weatherData == normalizeWeatherData(rawData)
     IN  wx' = [wx EXCEPT
                  !.dataCache = setCache(@, wx.calls[c].deviceId, weatherData,
                                         CurrentTtl),
                  !.calls[c] = [@ EXCEPT !.pc = "returned", !.data = weatherData]]
  /\ UNCHANGED <<core, hook, probe, retry, gate>>

\* a slip: the failure is put in the cache
CurrentFetchFailSlip(c) ==
  /\ wx.calls[c].pc = "fetching"
  /\ wx' = [wx EXCEPT
              !.dataCache = setCache(@, wx.calls[c].deviceId, NoCall.data,
                                     CurrentTtl),
              !.calls[c] = [@ EXCEPT !.pc = "thrown"]]
  /\ UNCHANGED <<core, hook, probe, retry, gate>>

\* fetchWithRetry threw: 'Weather data unavailable', nothing is stored
CurrentFetchFail(c) ==
  /\ wx.calls[c].pc = "fetching"
  /\ wx' = [wx EXCEPT !.calls[c] = [@ EXCEPT !.pc = "thrown"]]
  /\ UNCHANGED <<core, hook, probe, retry, gate>>

\* the caller has the outcome
CurrentDone(c) ==
  /\ wx.calls[c].pc \in {"returned", "thrown"}
  /\ wx' = [wx EXCEPT !.calls[c] = NoCall]
  /\ UNCHANGED <<core, hook, probe, retry, gate>>

\* getFromCache(key) called on its own
GetFromCache(key) ==
  /\ wx' = [wx EXCEPT
              !.dataCache = AfterGetFromCache(key),
              !.got = [called |-> TRUE, key |-> key,
                       hit |-> CacheFresh(wx.dataCache[key]),
                       stored |-> wx.dataCache[key].present,
                       age |-> now - wx.dataCache[key].timestamp,
                       cacheTimeout |-> wx.cacheTimeout,
                       removed |-> ~AfterGetFromCache(key)[key].present]]
  /\ UNCHANGED <<core, hook, probe, retry, gate>>

NextClient ==
  \/ \E d \in ClientSteps : Tick(d)
  \/ \E timeout \in CacheTimeoutSamples : SetCacheTimeout(timeout)
  \/ \E c \in Tasks, deviceId \in Devices : GetCurrentWeather(c, deviceId)
  \/ \E c \in Tasks, rawData \in RawReadings : CurrentFetchOk(c, rawData)
  \/ \E c \in Tasks : CurrentFetchFail(c)
  \/ \E c \in Tasks : CurrentDone(c)
  \/ \E key \in Devices : GetFromCache(key)

SpecClient == Init /\ [][NextClient]_vars

C16_ExpiresAfterCacheTimeout ==
  (/\ wx.got.called
   /\ wx.got.stored
   /\ wx.got.age > wx.got.cacheTimeout) =>
    /\ ~wx.got.hit
    /\ wx.got.removed

\* the entry does expire, at the 5 minutes getCurrentWeather passes
C16_ExpiresAtTtl ==
  /\ wx.got.called
  /\ wx.got.stored
  /\ wx.got.age = 5 * 60 * 1000
  /\ wx.got.cacheTimeout = 100
  /\ ~wx.got.hit
  /\ wx.got.removed

-----------------------------------------------------------------------------
(* WeatherXMService.enforceRateLimit, awaited by the request interceptor    *)
(* before a request is sent.  requestCounts is a Map keyed by the           *)
(* millisecond at which a caller entered.  A caller is                      *)
(*   idle      outside the gate                                             *)
(*   sleeping  awaiting sleep(waitTime)                                     *)
(*   admitted  past the gate: its request is sent                           *)
(* gate.sent lists the times at which requests were sent.                   *)

RateLimitWindow == 60000

\* maxRequestsPerWindow (100 in the source), and the requests of a behaviour
MaxRequestsPerWindow == 2
MaxRequests == 3

\* the clock between two arrivals
GateSteps == {1, 30000, 60000}

MinOf(S) == CHOOSE x \in S : \A y \in S : x <= y

\* enforceRateLimit up to its return, or to its await of sleep(waitTime);
\* on return the interceptor lets the request go
EnforceRateLimit(c) ==
  /\ gate.callers[c].pc = "idle"
  /\ Len(gate.sent)
       + Cardinality({d \in Tasks : gate.callers[d].pc = "sleeping"}) < MaxRequests
  /\ LET windowStart == now - RateLimitWindow
         kept == {timestamp \in gate.requestCounts : ~(timestamp < windowStart)}
     IN  IF Cardinality(kept) >= MaxRequestsPerWindow
         THEN LET oldestRequest == MinOf(kept)
                  waitTime == oldestRequest + RateLimitWindow - now
              IN  gate' = [gate EXCEPT
                             !.requestCounts = kept,
                             !.callers[c] = [pc |-> "sleeping", entered |-> now,
                                             wake |-> now + waitTime,
                                             waited |-> TRUE]]
         ELSE gate' = [gate EXCEPT
                         !.requestCounts = kept \cup {now},
                         !.callers[c] = [pc |-> "admitted", entered |-> now,
                                         wake |-> now, waited |-> FALSE],
                         !.sent = Append(@, now)]
  /\ UNCHANGED <<core, hook, probe, retry, wx>>

\* a slip: the caller woken from its sleep gives up
SleepOverSlip(c) ==
  /\ gate.callers[c].pc = "sleeping"
  /\ gate' = [gate EXCEPT !.callers[c] = NoCaller]
  /\ UNCHANGED <<core, hook, probe, retry, wx>>

\* the timer of sleep(waitTime) fires, timers in the order of their expiry:
\* the caller records the time at which it entered and its request goes
SleepOver(c) ==
  /\ gate.callers[c].pc = "sleeping"
  /\ \A d \in Tasks :
       gate.callers[d].pc = "sleeping" => gate.callers[c].wake <= gate.callers[d].wake
  /\ now' = IF now < gate.callers[c].wake THEN gate.callers[c].wake ELSE now
  /\ gate' = [gate EXCEPT
                !.requestCounts = @ \cup {gate.callers[c].entered},
                !.callers[c] = [@ EXCEPT !.pc = "admitted"],
                !.sent = Append(@, now')]
  /\ UNCHANGED <<ticks, nodeEnv, policies, farmers, payoutHistory, cache, ledger,
                 evals, running, calc, hook, probe, retry, wx>>

\* the request is on its way; the caller can come back with another
GateDone(c) ==
  /\ gate.callers[c].pc = "admitted"
  /\ gate' = [gate EXCEPT !.callers[c] = NoCaller]
  /\ UNCHANGED <<core, hook, probe, retry, wx>>

NextGate ==
  \/ \E d \in GateSteps : Tick(d)
  \/ \E c \in Tasks : EnforceRateLimit(c)
  \/ \E c \in Tasks : SleepOver(c)
  \/ \E c \in Tasks : GateDone(c)

SpecGate == Init /\ [][NextGate]_vars

\* setTimeout fires every timer, and callers that were admitted move on
SpecGateLive ==
  /\ Init
  /\ [][NextGate]_vars
  /\ \A c \in Tasks : WF_vars(SleepOver(c))

\* C17: in any 60-second sliding window the gate admits at most
\* maxRequestsPerWindow requests, whatever the arrival pattern.
C17_WindowLimit ==
  \A i \in DOMAIN gate.sent :
    Cardinality({j \in DOMAIN gate.sent :
                   /\ gate.sent[j] <= gate.sent[i]
                   /\ gate.sent[j] > gate.sent[i] - 60000}) <= MaxRequestsPerWindow

\* more requests than the limit sent in one and the same millisecond,
\* without anyone having waited
C17_SameMillisecond ==
  /\ Len(gate.sent) > MaxRequestsPerWindow
  /\ \A i \in DOMAIN gate.sent : gate.sent[i] = gate.sent[1]
  /\ \A c \in Tasks : ~gate.callers[c].waited

\* C18: no request is dropped: every caller that enters enforceRateLimit is
\* admitted and its request sent, at once or after its wait; the gate has
\* no other outcome.
C18_NoRequestDropped ==
  /\ \A c \in Tasks :
       (gate.callers[c].pc = "sleeping") ~> (gate.callers[c].pc = "admitted")
  /\ [][\A c \in Tasks :
          /\ (gate.callers[c].pc = "idle" /\ gate'.callers[c].pc # "idle") =>
               gate'.callers[c].pc \in {"sleeping", "admitted"}
          /\ gate.callers[c].pc = "sleeping" =>
               gate'.callers[c].pc \in {"sleeping", "admitted"}
          /\ (gate.callers[c].pc # "admitted" /\ gate'.callers[c].pc = "admitted") =>
               /\ Len(gate'.sent) = Len(gate.sent) + 1
               /\ gate'.sent[Len(gate'.sent)] = now']_vars

\* a caller that had to wait a full window has been admitted
C18_Witness ==
  \E c \in Tasks :
    /\ gate.callers[c].pc = "admitted"
    /\ gate.callers[c].waited
    /\ now = gate.callers[c].entered + 60000

-----------------------------------------------------------------------------
(* WeatherXMService.normalizeWeatherData with every ranged field, and the   *)
(* quality metrics validateWeatherData / calculateQualityScore attach to    *)
(* the normalized reading.  A behaviour holds one reading.                  *)

Undefined == 0 - 2000

HourMs == 60 * 60 * 1000

\* obj[field] on a JavaScript object
Field(obj, field) == IF field \in DOMAIN obj THEN obj[field] ELSE Undefined

\* `x || 0`
OrZero(x) == IF x \in {Null, Undefined, 0} THEN 0 ELSE x

\* Object.entries(validationRules), in the order of the literal
validationRules ==
  <<[field |-> "temperature",    min |-> 0 - 50, max |-> 60],
    [field |-> "humidity",       min |-> 0,      max |-> 100],
    [field |-> "wind_speed",     min |-> 0,      max |-> 200],
    [field |-> "wind_direction", min |-> 0,      max |-> 360],
    [field |-> "pressure",       min |-> 800,    max |-> 1100],
    [field |-> "precipitation",  min |-> 0,      max |-> 1000]>>

calculateQualityScore(data, errors, warnings) ==
  LET score1 == 100 - Len(errors) * 20 - Len(warnings) * 5
      stale == /\ data.timestamp # 0
               /\ now - data.timestamp > HourMs
      score == IF stale THEN score1 - 10 ELSE score1
      clipped == IF score > 100 THEN 100 ELSE score
  IN  IF clipped < 0 THEN 0 ELSE clipped

validateWeatherData(data) ==
  LET violated == [i \in DOMAIN validationRules |->
                     LET value == Field(data, validationRules[i].field)
                     IN  /\ value # Undefined
                         /\ value # Null
                         /\ \/ value < validationRules[i].min
                            \/ value > validationRules[i].max]
      broken == SelectIdx(validationRules, violated)
      errors == [i \in DOMAIN broken |-> broken[i].field]
      warnings == <<>>
  IN  [isValid |-> errors = <<>>,
       errors |-> errors,
       warnings |-> warnings,
       qualityScore |-> calculateQualityScore(data, errors, warnings)]

\* normalizeWeatherData: the ranged fields, the timestamp, the quality
normalizeWeatherDataQuality(rawData) ==
  LET normalized ==
        [timestamp     |-> rawData.timestamp,
         temperature   |-> OrZero(Field(rawData, "temperature")),
         humidity      |-> OrZero(Field(rawData, "humidity")),
         windSpeed     |-> OrZero(Field(rawData, "wind_speed")),
         windDirection |-> OrZero(Field(rawData, "wind_direction")),
         pressure      |-> OrZero(Field(rawData, "pressure")),
         precipitation |-> OrZero(Field(rawData, "precipitation"))]
      validation == validateWeatherData(normalized)
  IN  [reading |-> normalized,
       dataQuality |-> validation,
       qualityScore |-> validation.qualityScore]

\* provider readings: each field plausible, or beyond its range
RawQualityReadings ==
  [timestamp      : {0 - HourMs - 1, 0 - HourMs, 0 - 1},
   temperature    : {20, 70},
   humidity       : {50, 120},
   wind_speed     : {10, 250},
   wind_direction : {90, 400},
   pressure       : {1000, 500},
   precipitation  : {5, 1200}]

Normalize(rawData) ==
  /\ probe.kind = "none"
  /\ probe' = [kind |-> "normalize", rawData |-> rawData,
               normalized |-> normalizeWeatherDataQuality(rawData)]
  /\ UNCHANGED <<core, hook, retry, wx, gate>>

NextQuality == \E rawData \in RawQualityReadings : Normalize(rawData)

SpecQuality == Init /\ [][NextQuality]_vars

\* the six ranged fields of a normalized reading with their validation ranges
StatedRanges ==
  [temperature   |-> [min |-> 0 - 50, max |-> 60],
   humidity      |-> [min |-> 0,      max |-> 100],
   windSpeed     |-> [min |-> 0,      max |-> 200],
   windDirection |-> [min |-> 0,      max |-> 360],
   pressure      |-> [min |-> 800,    max |-> 1100],
   precipitation |-> [min |-> 0,      max |-> 1000]]

StatedViolations(reading) ==
  Cardinality({f \in DOMAIN StatedRanges :
                 \/ reading[f] < StatedRanges[f].min
                 \/ reading[f] > StatedRanges[f].max})

StatedScore(reading, warnings) ==
  LET score == 100 - 20 * StatedViolations(reading) - 5 * Len(warnings)
                 - (IF now - reading.timestamp > 60 * 60 * 1000 THEN 10 ELSE 0)
  IN  IF score < 0 THEN 0 ELSE IF score > 100 THEN 100 ELSE score

\* C23: the qualityScore of a normalized reading is 100 - 20 x (ranged fields
\* outside their validation range) - 5 x (cross-field warnings) - 10 if the
\* reading is older than one hour, clamped to [0, 100].
C23_QualityScore ==
  probe.kind = "normalize" =>
    probe.normalized.qualityScore =
      StatedScore(probe.normalized.reading, probe.normalized.dataQuality.warnings)

\* a fresh reading with every field in range scores exactly 100
C23_CleanScoresFull ==
  /\ probe.kind = "normalize"
  /\ StatedViolations(probe.normalized.reading) = 0
  /\ now - probe.normalized.reading.timestamp <= 60 * 60 * 1000
  /\ probe.normalized.qualityScore = 100

-----------------------------------------------------------------------------
(* PolicyService on its own: createPolicy, updatePolicyStatus and           *)
(* addClaimRecord called in any order by the service's clients.             *)

\* policies in the registry, and claim records over all policies
MaxRegistry == 2
MaxClaims == 2

RegistryFarmers == {"farmerA", "farmerB"}
RegistryStatuses == {"active", "claimed", "cancelled"}

\* claimData: a paid claim of either amount, and one that is not paid
ClaimInputs ==
  {[status |-> "paid", payoutAmount |-> 50],
   [status |-> "paid", payoutAmount |-> 100],
   [status |-> "pending", payoutAmount |-> 50]}

\* the claim records the registry holds
ClaimCount == SumSeq([i \in DOMAIN policies |-> Len(policies[i].claimHistory)])

\* a slip: every claim record counts towards totalClaims
AddClaimRecordSlip(policyId, claimData) ==
  /\ running = NoTask
  /\ ClaimCount < MaxClaims
  /\ IF policyId \in DOMAIN policies
     THEN LET policy == policies[policyId]
              claim == [policyId |-> policyId, status |-> claimData.status,
                        payoutAmount |-> claimData.payoutAmount]
          IN  /\ policies' = [policies EXCEPT
                                ![policyId].claimHistory = Append(@, claim)]
              /\ farmers' = [farmers EXCEPT
                               ![policy.farmerId].totalClaims = @ + claim.payoutAmount]
     ELSE UNCHANGED <<policies, farmers>>
  /\ UNCHANGED <<now, ticks, nodeEnv, payoutHistory, cache, ledger, evals,
                 running, calc, client>>

\* addClaimRecord: an unknown policy id throws before anything is stored
AddClaimRecord(policyId, claimData) ==
  /\ running = NoTask
  /\ ClaimCount < MaxClaims
  /\ IF policyId \in DOMAIN policies
     THEN LET policy == policies[policyId]
              claim == [policyId |-> policyId, status |-> claimData.status,
                        payoutAmount |-> claimData.payoutAmount]
          IN  /\ policies' = [policies EXCEPT
                                ![policyId].claimHistory = Append(@, claim)]
              /\ farmers' =
                   IF policy.farmerId \in DOMAIN farmers /\ claim.status = "paid"
                   THEN [farmers EXCEPT
                           ![policy.farmerId].totalClaims = @ + claim.payoutAmount]
                   ELSE farmers
     ELSE UNCHANGED <<policies, farmers>>
  /\ UNCHANGED <<now, ticks, nodeEnv, payoutHistory, cache, ledger, evals,
                 running, calc, client>>

NextRegistry ==
  \/ /\ Len(policies) < MaxRegistry
     /\ \E farmerId \in RegistryFarmers, cropType \in CropInputs,
           coverageAmount \in CoverageInputs, deviceId \in Devices,
           duration \in DurationInputs :
          CreatePolicy(farmerId, cropType, coverageAmount, deviceId, duration)
  \/ \E policyId \in 1..MaxRegistry, status \in RegistryStatuses :
       UpdatePolicyStatus(policyId, status)
  \/ \E policyId \in 1..MaxRegistry, claimData \in ClaimInputs :
       AddClaimRecord(policyId, claimData)

SpecRegistry == Init /\ [][NextRegistry]_vars

\* C24: stored policy status only moves forward: a policy whose stored status
\* is claimed or cancelled never has stored status active again, and no
\* policy is ever removed from the registry.
C24_StatusMovesForward ==
  [][/\ Len(policies') >= Len(policies)
     /\ \A i \in DOMAIN policies :
          policies[i].status \in {"claimed", "cancelled"} =>
            policies'[i].status # "active"]_vars

\* the sum of payoutAmount over the paid claims of a farmer's policies
StatedPaid(farmerId) ==
  SumSeq([i \in DOMAIN policies |->
            IF policies[i].farmerId = farmerId
            THEN SumSeq([k \in DOMAIN policies[i].claimHistory |->
                           IF policies[i].claimHistory[k].status = "paid"
                           THEN policies[i].claimHistory[k].payoutAmount ELSE 0])
            ELSE 0])

\* C26: each farmer's totalClaims equals the sum of payoutAmount over the
\* claim records with status paid in the claimHistory of that farmer's
\* policies; a claim of another status leaves totalClaims unchanged.
C26_TotalClaimsIsPaidSum ==
  \A f \in DOMAIN farmers : farmers[f].totalClaims = StatedPaid(f)

\* a farmer with a paid claim and a claim that is not paid
C26_Witness ==
  \E f \in DOMAIN farmers :
    /\ farmers[f].totalClaims > 0
    /\ \E i \in DOMAIN policies :
         /\ policies[i].farmerId = f
         /\ \E k \in DOMAIN policies[i].claimHistory :
              policies[i].claimHistory[k].status # "paid"
         /\ \E k \in DOMAIN policies[i].claimHistory :
              policies[i].claimHistory[k].status = "paid"

-----------------------------------------------------------------------------
(* createPolicy called with valid and with rejected parameters; probe       *)
(* keeps the last call with the registry as it was before it.               *)

CreateCrops == {"wheat", "maize", "barley"}
CreateCoverages == {1000, 2500}

\* a slip: the farmer aggregate is created before the crop type is validated
CreatePolicyCallSlip(farmerId, cropType, coverageAmount, deviceId, duration) ==
  /\ Len(policies) < MaxRegistry
  /\ IF cropType \in DOMAIN CropTypes
     THEN CreatePolicyOk(farmerId, cropType, coverageAmount, deviceId, duration)
     ELSE /\ farmers' = [f \in DOMAIN farmers \cup {farmerId} |->
                           IF f \in DOMAIN farmers
                           THEN farmers[f] ELSE NewFarmer(farmerId)]
          /\ UNCHANGED policies
  /\ probe' = [kind |-> "createPolicy", cropType |-> cropType,
               threw |-> cropType \notin DOMAIN CropTypes,
               policies |-> policies, farmers |-> farmers]
  /\ UNCHANGED <<now, ticks, nodeEnv, payoutHistory, cache, ledger, evals,
                 running, calc, hook, retry, wx, gate>>

\* createPolicy, its outcome observed by the caller
CreatePolicyCall(farmerId, cropType, coverageAmount, deviceId, duration) ==
  /\ Len(policies) < MaxRegistry
  /\ IF cropType \in DOMAIN CropTypes
     THEN CreatePolicyOk(farmerId, cropType, coverageAmount, deviceId, duration)
     ELSE UNCHANGED <<policies, farmers>>
  /\ probe' = [kind |-> "createPolicy", cropType |-> cropType,
               threw |-> cropType \notin DOMAIN CropTypes,
               policies |-> policies, farmers |-> farmers]
  /\ UNCHANGED <<now, ticks, nodeEnv, payoutHistory, cache, ledger, evals,
                 running, calc, hook, retry, wx, gate>>

\* getFarmerPolicies: the stored policies a farmer's list names
getFarmerPolicies(farmerId) ==
  IF farmerId \notin DOMAIN farmers
  THEN <<>>
  ELSE [k \in DOMAIN farmers[farmerId].policies |->
          policies[farmers[farmerId].policies[k]]]

NextCreate ==
  \E farmerId \in RegistryFarmers, cropType \in CreateCrops,
     coverageAmount \in CreateCoverages, deviceId \in Devices,
     duration \in DurationInputs :
    CreatePolicyCall(farmerId, cropType, coverageAmount, deviceId, duration)

SpecCreate == Init /\ [][NextCreate]_vars

-----------------------------------------------------------------------------
(* One sweep over a fresh history, with the loop of waitForTransaction:     *)
(* while the transaction is not confirmed each iteration reads the pending  *)
(* information, increments lastRound and awaits the next block.             *)

\* one iteration of waitForTransaction's loop without a confirmation
WaitForTransactionRound(t) ==
  /\ running = NoTask
  /\ evals[t].pc = "settle_wait"
  /\ evals' = [evals EXCEPT ![t].round = (@ + 1) % 2]
  /\ UNCHANGED <<now, ticks, nodeEnv, policies, farmers, payoutHistory, cache,
                 ledger, running, calc, client>>

\* the steps of a sweep that do not depend on the transaction's fate: the
\* handler's own code, the weather provider's answer, the ledger's answer to
\* a submission, the next block
SweepStep(t) ==
  \/ SweepNext(t)
  \/ CheckEntry(t)
  \/ \E weatherData \in WeatherSamples : FetchOk(t, weatherData)
  \/ \E mockData \in MockSamples : FetchFail(t, mockData)
  \/ Analyze(t)
  \/ TriggerLoop(t)
  \/ LedgerSubmitOk(t)
  \/ LedgerSubmitFail(t)
  \/ WaitForTransactionRound(t)
  \/ Finish(t)

NextSettle ==
  \/ /\ Len(policies) < MaxPolicies
     /\ \E farmerId \in FarmerIds, cropType \in CropInputs,
           coverageAmount \in CoverageInputs, deviceId \in Devices,
           duration \in DurationInputs :
          CreatePolicy(farmerId, cropType, coverageAmount, deviceId, duration)
  \/ /\ payoutHistory = <<>>
     /\ StartSweep(TaskOrder[1])
  \/ SweepStep(TaskOrder[1])
  \/ LedgerConfirm(TaskOrder[1])
  \/ LedgerWaitFail(TaskOrder[1])

\* the event loop runs every continuation and every awaited call returns or
\* throws; nothing makes the network confirm a transaction
SpecSettle ==
  /\ Init
  /\ [][NextSettle]_vars
  /\ WF_vars(SweepStep(TaskOrder[1]))

\* C25: a settlement call ends within a bounded time even when the submitted
\* transaction is never confirmed, so a sweep that has started always
\* eventually finishes.
C25_SweepFinishes ==
  (evals[TaskOrder[1]].kind = "sweep") ~> (evals[TaskOrder[1]].pc \in {"done", "idle"})

\* a sweep in waitForTransaction, one block after the submission
C25_StillWaiting ==
  /\ evals[TaskOrder[1]].kind = "sweep"
  /\ evals[TaskOrder[1]].pc = "settle_wait"
  /\ evals[TaskOrder[1]].round = 1
  /\ Len(ledger) = 1

-----------------------------------------------------------------------------
(* Claims about payoutHistory and the ledger, on the system of Spec *)

\* C27: a trigger is skipped by duplicate suppression exactly when
\* payoutHistory holds a record of the same policy and trigger type with
\* status completed and age strictly below 24 hours; a failed record, a
\* record of another pair or a completed record 24 hours old or older does
\* not suppress, and the settlement is attempted.
C27_SuppressedExactlyWhenRecent ==
  [][\A t \in Tasks :
       (/\ evals[t].pc = "trigger_loop"
        /\ evals[t].triggers # <<>>
        /\ evals'[t] # evals[t]
        /\ evals'[t].amount > 0) =>
         LET recent ==
               \E i \in DOMAIN payoutHistory :
                 /\ payoutHistory[i].policyId = evals[t].cur.id
                 /\ payoutHistory[i].triggerType = Head(evals[t].triggers).type
                 /\ payoutHistory[i].status = "completed"
                 /\ now - payoutHistory[i].timestamp < 24 * 60 * 60 * 1000
         IN  /\ recent => /\ evals'[t].ppResult = "null_duplicate"
                          /\ evals'[t].pc = "trigger_loop"
             /\ ~recent => /\ evals'[t].ppResult = "pending"
                           /\ evals'[t].pc = "settle_submit"]_vars

\* a settlement attempted although the history holds a failed record of the
\* pair from the same instant
C27_Witness ==
  \E t \in Tasks :
    /\ evals[t].pc = "settle_submit"
    /\ \E i \in DOMAIN payoutHistory :
         /\ payoutHistory[i].policyId = evals[t].cur.id
         /\ payoutHistory[i].triggerType = evals[t].trig.type
         /\ payoutHistory[i].status = "failed"
         /\ payoutHistory[i].timestamp = now

\* C28: payoutHistory is append-only: a stored record is never changed or
\* removed, and records have distinct ids, so a failed attempt and a later
\* successful one for the same pair are two records, the failed one unchanged.
C28_AppendOnly ==
  /\ [](\A i, j \in DOMAIN payoutHistory :
          i # j => payoutHistory[i].id # payoutHistory[j].id)
  /\ [][/\ Len(payoutHistory') >= Len(payoutHistory)
        /\ \A i \in DOMAIN payoutHistory : payoutHistory'[i] = payoutHistory[i]]_vars

\* a failed record followed by a completed record of the same pair
C28_Witness ==
  \E i, j \in DOMAIN payoutHistory :
    /\ i < j
    /\ payoutHistory[i].status = "failed"
    /\ payoutHistory[i].payoutAmount = 0
    /\ CompletedFor(payoutHistory[j], payoutHistory[i].policyId,
                    payoutHistory[i].triggerType)
    /\ payoutHistory[i].id # payoutHistory[j].id

\* C29: every transfer submitted to the ledger is recorded as a completed
\* PayoutRecord once its settlement call has ended, also when the call threw
\* after the submission; so no second transfer of the pair is submitted
\* within 24 hours.
C29_SubmittedIsRecorded ==
  \A k \in DOMAIN ledger :
    \/ \E t \in Tasks : /\ evals[t].pc = "settle_wait"
                        /\ evals[t].txId = ledger[k].txId
    \/ \E i \in DOMAIN payoutHistory :
         /\ payoutHistory[i].status = "completed"
         /\ payoutHistory[i].transactionId = ledger[k].txId

\* two transfers of one pair on the ledger at the same instant, one after
\* the other, the first known to the history only as failed
C29_SecondTransfer ==
  /\ ticks = 0
  /\ Len(ledger) = 2
  /\ ledger[1].policyId = ledger[2].policyId
  /\ ledger[1].triggerType = ledger[2].triggerType
  /\ payoutHistory # <<>>
  /\ payoutHistory[1].status = "failed"
  /\ payoutHistory[1].policyId = ledger[1].policyId
  /\ payoutHistory[1].triggerType = ledger[1].triggerType

====
